---- MODULE Spec2Model ----
(***************************************************************************)
(* ProgressTrackedImValProm<T, M> (immediatevalueprogress.rs): a wrapper   *)
(* that owns an ImmediateValuePromise<T>, the receiver of a bounded tokio  *)
(* mpsc channel and a Vec of the Status values received so far.  The       *)
(* asynchronous body built by the `creator` closure owns the sender, runs  *)
(* on the executor concurrently with the thread that calls the wrapper,    *)
(* sends Status values and finally completes with Ok(v) or Err(e).         *)
(*                                                                         *)
(* poll_state() is not atomic with respect to the body: the body may run   *)
(* between two try_recv() calls and between the last try_recv() and the    *)
(* promise's poll, so poll_state is modelled one step per try_recv plus    *)
(* one step for the promise's poll.  The other methods touch only fields   *)
(* the body cannot reach and are one step each.                            *)
(***************************************************************************)
EXTENDS Integers, Sequences, FiniteSets, TLC

(* ---- bounds of the model ---- *)
\* the body sends at most MaxSend statuses
MaxSend == 3
\* `buffer` passed to new() ranges over 1..MaxBuffer (tokio panics on 0)
MaxBuffer == 2

\* success payloads (the test completes with 34 and overwrites it with 33)
Values == {33, 34}
\* identities of the opaque boxed errors
Errors == {500}
\* (percent, message) pairs a status may carry; out-of-range percents clamp
Reports == {<<0, "Initializing">>, <<150, "Done">>}
\* what the sub-task reports
SubReports == {<<50, "processing">>}

VARIABLES
    buffer,     \* capacity given to tokio::sync::mpsc::channel
    status,     \* self.status: Vec<Status<M>>
    chan,       \* messages buffered in the channel, oldest first
    dropped,    \* the wrapper (and with it the receiver) has been dropped
    state,      \* self.promise's ImmediateValueState<T>
    slot,       \* result the body has produced, until the promise picks it up
    ppc,        \* position of the asynchronous body
    pending,    \* the status of a suspended send
    clock,      \* number of Status values created so far (Instant::now)
    ppc2,       \* position of a sub-task holding a clone of the sender
    pending2,   \* the status of the sub-task's suspended send
    cpc,        \* position of the calling thread inside poll_state
    ret,        \* what the last completed public call returned
    sent,       \* history: statuses the channel has accepted, in order
    sentAtCall, \* history: Len(sent) when the running poll_state began
    doneAtCall, \* history: the body had completed when that call began
    sendErrs,   \* history: sends that returned Err (receiver gone)
    produced,   \* history: the result the body completed with
    polled,     \* history: what the last poll_state returned
    prevPolled, \* history: what the poll_state before that one returned
    written,    \* history: value last written through get_value_mut
    valueTakes, \* history: take_value calls that returned a value
    resultTakes \* history: take_result calls that returned a result

vars == <<buffer, status, chan, dropped, state, slot, ppc, pending, clock,
          ppc2, pending2, cpc, ret, sent, sentAtCall, doneAtCall, sendErrs,
          produced, polled, prevPolled, written, valueTakes, resultTakes>>

wrapperVars == <<buffer, status, chan, dropped, cpc, sentAtCall, doneAtCall>>
promiseVars == <<state, slot>>
bodyVars == <<ppc, pending, clock, sent, sendErrs>>
subVars == <<ppc2, pending2>>
histVars == <<polled, prevPolled, written, valueTakes, resultTakes>>
\* the result the body has completed with, Pending until then
resultVars == <<produced>>

(* ---- values ---- *)
\* every returned value has one shape, so that any two can be compared:
\* a kind, a number and a sequence of statuses
Val(kind, n, seq) == [kind |-> kind, n |-> n, seq |-> seq]
None == Val("None", 0, <<>>)
Some(v) == Val("Some", v, <<>>)
SomeOk(v) == Val("SomeOk", v, <<>>)
SomeErr(e) == Val("SomeErr", e, <<>>)
SomeStatus(st) == Val("Some", 0, <<st>>)
Slice(seq) == Val("Slice", 0, seq)
Bool(b) == Val(IF b THEN "true" ELSE "false", 0, <<>>)
ProgressVal(p) == Val("Progress", p, <<>>)
StateRef(s) == Val(s.tag, s.val, <<>>)

Ok(v) == [tag |-> "Ok", val |-> v]
Err(e) == [tag |-> "Err", val |-> e]

\* ImmediateValueState<T>
Updating == [tag |-> "Updating", val |-> 0]
Empty == [tag |-> "Empty", val |-> 0]
Success(v) == [tag |-> "Success", val |-> v]
Error(e) == [tag |-> "Error", val |-> e]
IsTerminal(s) == s.tag \in {"Success", "Error"}

\* `polled` before the first poll_state has returned
NotPolled == [tag |-> "NotPolled", val |-> 0]

\* the result cell shared between the body and the promise
Pending == [tag |-> "Pending", val |-> 0]
Consumed == [tag |-> "Consumed", val |-> 0]

\* Progress, kept in hundredths: from_percent divides by 100 and clamps to [0,1]
FromPercent(x) == IF x < 0 THEN 0 ELSE IF x > 100 THEN 100 ELSE x
\* mutant: an empty log reads as full progress
ProgressDefault_full == FromPercent(100)
ProgressDefault == 0

\* Status::new / from_str / from_string: stamps the current time
StatusNew(progress, message, now) ==
    [time |-> now, progress |-> progress, message |-> message]
NoStatus == [time |-> 0, progress |-> 0, message |-> ""]

IsPrefix(s, t) == Len(s) <= Len(t) /\ SubSeq(t, 1, Len(s)) = s

(* ---- ImmediateValuePromise<T> and its DirectCacheAccess ---- *)
\* poll_state: one non-blocking look at the result cell while Updating
PromisePollState(s, r) ==
    IF s.tag = "Updating" /\ r.tag = "Ok" THEN Success(r.val)
    ELSE IF s.tag = "Updating" /\ r.tag = "Err" THEN Error(r.val)
    ELSE s
PromisePollSlot(s, r) ==
    IF s.tag = "Updating" /\ r.tag \in {"Ok", "Err"} THEN Consumed ELSE r

PromiseGetValue(s) == IF s.tag = "Success" THEN Some(s.val) ELSE None
PromiseGetResult(s) ==
    IF s.tag = "Success" THEN SomeOk(s.val)
    ELSE IF s.tag = "Error" THEN SomeErr(s.val)
    ELSE None
\* the take operations move the payload out and leave Empty behind
PromiseAfterTakeValue(s) == IF s.tag = "Success" THEN Empty ELSE s
PromiseAfterTakeResult(s) == IF IsTerminal(s) THEN Empty ELSE s
\* a write through the &mut T handed out by get_value_mut
PromiseAfterWrite(s, v) == IF s.tag = "Success" THEN Success(v) ELSE s

(* ---- construction ---- *)
\* ProgressTrackedImValProm::new(creator, buffer); `sub` is "run" when the
\* body built by `creator` has spawned a sub-task with a clone of the sender
Start(sub) ==
    /\ buffer \in 1..MaxBuffer
    /\ status = <<>>
    /\ chan = <<>>
    /\ dropped = FALSE
    /\ state = Updating
    /\ slot = Pending
    /\ ppc = "run"
    /\ pending = NoStatus
    /\ clock = 0
    /\ ppc2 = sub
    /\ pending2 = NoStatus
    /\ cpc = "idle"
    /\ ret = [op |-> "new", val |-> None]
    /\ sent = <<>>
    /\ sentAtCall = 0
    /\ doneAtCall = FALSE
    /\ sendErrs = 0
    /\ produced = Pending
    /\ polled = NotPolled
    /\ prevPolled = NotPolled
    /\ written = None
    /\ valueTakes = 0
    /\ resultTakes = 0

Init == Start("off")
InitMulti == Start("run")

(* ---- the asynchronous body (runs on the executor) ---- *)
\* Sender::send on a channel whose receiver is gone returns Err; the body
\* either unwraps it (the task panics and never completes) or ignores it
SendFailed(st) ==
    /\ \E reaction \in {"panicked", "run"} : ppc' = reaction
    /\ pending' = NoStatus
    /\ sendErrs' = sendErrs + 1
    /\ UNCHANGED <<chan, sent>>

\* the channel accepts the status: the send completes
SendAccepted(st) ==
    /\ chan' = Append(chan, st)
    /\ sent' = Append(sent, st)
    /\ ppc' = "run"
    /\ pending' = NoStatus
    /\ UNCHANGED sendErrs

\* no permit is free: the sending task is suspended, holding the status
SendSuspended(st) ==
    /\ ppc' = "blocked"
    /\ pending' = st
    /\ UNCHANGED <<chan, sent, sendErrs>>

\* mutant: an unbounded channel, `buffer` is ignored and no send waits
send_unbounded ==
    /\ ppc = "run"
    /\ clock < MaxSend
    /\ \E rep \in Reports :
        LET st == StatusNew(FromPercent(rep[1]), rep[2], clock + 1) IN
        /\ clock' = clock + 1
        /\ IF dropped THEN SendFailed(st) ELSE SendAccepted(st)
    /\ UNCHANGED <<buffer, status, dropped, cpc, sentAtCall, doneAtCall, ret>>
    /\ UNCHANGED <<promiseVars, histVars, resultVars, subVars>>

\* s.send(Status::new(Progress::from_percent(p), m)).await, first poll
send ==
    /\ ppc = "run"
    /\ clock < MaxSend
    /\ \E rep \in Reports :
        LET st == StatusNew(FromPercent(rep[1]), rep[2], clock + 1) IN
        /\ clock' = clock + 1
        /\ IF dropped THEN SendFailed(st)
           ELSE IF Len(chan) < buffer THEN SendAccepted(st)
           ELSE SendSuspended(st)
    /\ UNCHANGED <<buffer, status, dropped, cpc, sentAtCall, doneAtCall, ret>>
    /\ UNCHANGED <<promiseVars, histVars, resultVars, subVars>>

\* mutant: the close of the channel is not seen by a waiting sender
send_resume_ignores_close ==
    /\ ppc = "blocked"
    /\ Len(chan) < buffer
    /\ SendAccepted(pending)
    /\ UNCHANGED <<buffer, status, dropped, cpc, sentAtCall, doneAtCall, ret, clock>>
    /\ UNCHANGED <<promiseVars, histVars, resultVars, subVars>>

\* the suspended send is woken: a slot was freed or the receiver dropped
send_resume ==
    /\ ppc = "blocked"
    /\ dropped \/ Len(chan) < buffer
    /\ IF dropped THEN SendFailed(pending) ELSE SendAccepted(pending)
    /\ UNCHANGED <<buffer, status, dropped, cpc, sentAtCall, doneAtCall, ret, clock>>
    /\ UNCHANGED <<promiseVars, histVars, resultVars, subVars>>

\* the body returns Ok(v) or Err(e); its sender is dropped with it
complete ==
    /\ ppc = "run"
    /\ \E r \in {Ok(v) : v \in Values} \cup {Err(e) : e \in Errors} :
        /\ slot' = r
        /\ produced' = r
    /\ ppc' = "done"
    /\ UNCHANGED <<wrapperVars, state, pending, clock, sent, sendErrs, ret>>
    /\ UNCHANGED <<histVars, subVars>>

(* ---- a sub-task of the body, sending through a clone of the sender ---- *)
\* s2.send(Status::new(..)).await, first poll
sub_send ==
    /\ ppc2 = "run"
    /\ clock < MaxSend
    /\ \E rep \in SubReports :
        LET st == StatusNew(FromPercent(rep[1]), rep[2], clock + 1) IN
        /\ clock' = clock + 1
        /\ IF dropped
           THEN /\ \E reaction \in {"panicked", "run"} : ppc2' = reaction
                /\ pending2' = NoStatus
                /\ sendErrs' = sendErrs + 1
                /\ UNCHANGED <<chan, sent>>
           ELSE IF Len(chan) < buffer
           THEN /\ chan' = Append(chan, st)
                /\ sent' = Append(sent, st)
                /\ UNCHANGED <<ppc2, pending2, sendErrs>>
           ELSE /\ ppc2' = "blocked"
                /\ pending2' = st
                /\ UNCHANGED <<chan, sent, sendErrs>>
    /\ UNCHANGED <<buffer, status, dropped, cpc, sentAtCall, doneAtCall, ret>>
    /\ UNCHANGED <<promiseVars, histVars, resultVars, ppc, pending>>

\* the sub-task's suspended send is woken
sub_send_resume ==
    /\ ppc2 = "blocked"
    /\ dropped \/ Len(chan) < buffer
    /\ IF dropped
       THEN /\ \E reaction \in {"panicked", "run"} : ppc2' = reaction
            /\ sendErrs' = sendErrs + 1
            /\ UNCHANGED <<chan, sent>>
       ELSE /\ chan' = Append(chan, pending2)
            /\ sent' = Append(sent, pending2)
            /\ ppc2' = "run"
            /\ UNCHANGED sendErrs
    /\ pending2' = NoStatus
    /\ UNCHANGED <<buffer, status, dropped, cpc, sentAtCall, doneAtCall, ret>>
    /\ UNCHANGED <<promiseVars, histVars, resultVars, ppc, pending, clock>>

\* the sub-task ends and drops its clone of the sender
sub_finish ==
    /\ ppc2 = "run"
    /\ ppc2' = "done"
    /\ UNCHANGED <<wrapperVars, promiseVars, bodyVars, pending2, ret>>
    /\ UNCHANGED <<histVars, resultVars>>

SubTask == sub_send \/ sub_send_resume \/ sub_finish

(* ---- ProgressTrackedImValProm: poll_state ---- *)
CallerIdle == ~dropped /\ cpc = "idle"

\* mutant: the drain loop is missing, the call goes straight to the promise
poll_state_call_no_drain ==
    /\ CallerIdle
    /\ cpc' = "poll"
    /\ sentAtCall' = Len(sent)
    /\ doneAtCall' = (ppc = "done" /\ ppc2 \in {"off", "done"})
    /\ UNCHANGED <<buffer, status, chan, dropped, ret>>
    /\ UNCHANGED <<promiseVars, bodyVars, subVars, histVars, resultVars>>

\* entry of poll_state(&mut self)
poll_state_call ==
    /\ CallerIdle
    /\ cpc' = "drain"
    /\ sentAtCall' = Len(sent)
    /\ doneAtCall' = (ppc = "done" /\ ppc2 \in {"off", "done"})
    /\ UNCHANGED <<buffer, status, chan, dropped, ret>>
    /\ UNCHANGED <<promiseVars, bodyVars, subVars, histVars, resultVars>>

\* mutant: `if let` for `while let`, one status is received per call
try_recv_ok_once ==
    /\ cpc = "drain"
    /\ chan # <<>>
    /\ status' = Append(status, Head(chan))
    /\ chan' = Tail(chan)
    /\ cpc' = "poll"
    /\ UNCHANGED <<buffer, dropped, sentAtCall, doneAtCall, ret>>
    /\ UNCHANGED <<promiseVars, bodyVars, subVars, histVars, resultVars>>

\* mutant: the received status is inserted at the front of the log
try_recv_ok_front ==
    /\ cpc = "drain"
    /\ chan # <<>>
    /\ status' = <<Head(chan)>> \o status
    /\ chan' = Tail(chan)
    /\ UNCHANGED <<buffer, dropped, cpc, sentAtCall, doneAtCall, ret>>
    /\ UNCHANGED <<promiseVars, bodyVars, subVars, histVars, resultVars>>

\* mutant: the newest buffered status is received first
try_recv_ok_newest ==
    /\ cpc = "drain"
    /\ chan # <<>>
    /\ status' = Append(status, chan[Len(chan)])
    /\ chan' = SubSeq(chan, 1, Len(chan) - 1)
    /\ UNCHANGED <<buffer, dropped, cpc, sentAtCall, doneAtCall, ret>>
    /\ UNCHANGED <<promiseVars, bodyVars, subVars, histVars, resultVars>>

\* while let Ok(msg) = self.receiver.try_recv() { self.status.push(msg); }
try_recv_ok ==
    /\ cpc = "drain"
    /\ chan # <<>>
    /\ status' = Append(status, Head(chan))
    /\ chan' = Tail(chan)
    /\ UNCHANGED <<buffer, dropped, cpc, sentAtCall, doneAtCall, ret>>
    /\ UNCHANGED <<promiseVars, bodyVars, subVars, histVars, resultVars>>

\* mutant: a blocking receive, which returns without a message only once
\* every sender is gone
try_recv_err_blocking ==
    /\ cpc = "drain"
    /\ chan = <<>>
    /\ ppc \in {"done", "panicked"}
    /\ cpc' = "poll"
    /\ UNCHANGED <<buffer, status, chan, dropped, sentAtCall, doneAtCall, ret>>
    /\ UNCHANGED <<promiseVars, bodyVars, subVars, histVars, resultVars>>

\* try_recv() returns Err(Empty) or Err(Disconnected): the loop ends
try_recv_err ==
    /\ cpc = "drain"
    /\ chan = <<>>
    /\ cpc' = "poll"
    /\ UNCHANGED <<buffer, status, chan, dropped, sentAtCall, doneAtCall, ret>>
    /\ UNCHANGED <<promiseVars, bodyVars, subVars, histVars, resultVars>>

\* mutant: the promise's state is returned without polling the promise
promise_poll_state_skips ==
    /\ cpc = "poll"
    /\ ret' = [op |-> "poll_state", val |-> StateRef(state)]
    /\ polled' = state
    /\ prevPolled' = polled
    /\ cpc' = "idle"
    /\ UNCHANGED <<buffer, status, chan, dropped, sentAtCall, doneAtCall>>
    /\ UNCHANGED <<promiseVars, bodyVars, subVars, produced>>
    /\ UNCHANGED <<written, valueTakes, resultTakes>>

\* self.promise.poll_state(), whose state poll_state returns
promise_poll_state ==
    /\ cpc = "poll"
    /\ state' = PromisePollState(state, slot)
    /\ slot' = PromisePollSlot(state, slot)
    /\ ret' = [op |-> "poll_state", val |-> StateRef(state')]
    /\ polled' = state'
    /\ prevPolled' = polled
    /\ cpc' = "idle"
    /\ UNCHANGED <<buffer, status, chan, dropped, sentAtCall, doneAtCall>>
    /\ UNCHANGED <<bodyVars, subVars, produced, written, valueTakes, resultTakes>>

\* the steps of a poll_state call that is under way
poll_state_step == try_recv_ok \/ try_recv_err \/ promise_poll_state

poll_state == poll_state_call \/ poll_state_step

(* ---- ProgressTrackedImValProm: the read-only methods ---- *)
Returns(op, val) ==
    /\ ret' = [op |-> op, val |-> val]
    /\ UNCHANGED <<wrapperVars, bodyVars, subVars>>

status_history ==
    /\ CallerIdle
    /\ Returns("status_history", Slice(status))
    /\ UNCHANGED <<promiseVars, histVars, resultVars>>

last_status ==
    /\ CallerIdle
    /\ Returns("last_status",
               IF status = <<>> THEN None
               ELSE SomeStatus(status[Len(status)]))
    /\ UNCHANGED <<promiseVars, histVars, resultVars>>

\* mutant: any terminal result counts, get_result().is_some()
Finished_any_result(s) == PromiseGetResult(s) # None

\* self.promise.get_value().is_some()
Finished(s) == PromiseGetValue(s) # None

finished ==
    /\ CallerIdle
    /\ Returns("finished", Bool(Finished(state)))
    /\ UNCHANGED <<promiseVars, histVars, resultVars>>

\* mutant: get_progress first receives a waiting status
get_progress_drains ==
    /\ CallerIdle
    /\ status' = IF chan = <<>> THEN status ELSE Append(status, Head(chan))
    /\ chan' = IF chan = <<>> THEN chan ELSE Tail(chan)
    /\ ret' = [op |-> "get_progress",
               val |-> ProgressVal(IF status' = <<>> THEN ProgressDefault
                                   ELSE status'[Len(status')].progress)]
    /\ UNCHANGED <<buffer, dropped, cpc, sentAtCall, doneAtCall>>
    /\ UNCHANGED <<promiseVars, bodyVars, subVars, histVars, resultVars>>

get_progress ==
    /\ CallerIdle
    /\ Returns("get_progress",
               ProgressVal(IF status = <<>> THEN ProgressDefault
                           ELSE status[Len(status)].progress))
    /\ UNCHANGED <<promiseVars, histVars, resultVars>>

(* ---- DirectCacheAccess for ProgressTrackedImValProm ---- *)
\* mutant: the borrow handed out is of a copy, the write never lands
get_value_mut_copy ==
    /\ CallerIdle
    /\ \E v \in Values :
        /\ state' = state
        /\ Returns("get_value_mut", PromiseGetValue(PromiseAfterWrite(state, v)))
        /\ written' = IF PromiseGetValue(state) # None THEN Some(v) ELSE None
    /\ UNCHANGED <<slot, produced, polled, prevPolled, valueTakes, resultTakes>>

\* mutant: a missing value is created by the write (get_or_insert)
get_value_mut_inserts ==
    /\ CallerIdle
    /\ \E v \in Values :
        /\ state' = Success(v)
        /\ Returns("get_value_mut", Some(v))
        /\ written' = Some(v)
    /\ UNCHANGED <<slot, produced, polled, prevPolled, valueTakes, resultTakes>>

\* self.promise.get_value_mut(); the caller writes v through the borrow
\* (v equal to the cached value: the caller only reads)
get_value_mut ==
    /\ CallerIdle
    /\ \E v \in Values :
        /\ state' = PromiseAfterWrite(state, v)
        /\ Returns("get_value_mut", PromiseGetValue(state'))
        /\ written' = IF PromiseGetValue(state) # None THEN Some(v) ELSE None
    /\ UNCHANGED <<slot, produced, polled, prevPolled, valueTakes, resultTakes>>

\* mutant: the read delegates to the promise's take_value
get_value_takes ==
    /\ CallerIdle
    /\ Returns("get_value", PromiseGetValue(state))
    /\ state' = PromiseAfterTakeValue(state)
    /\ UNCHANGED <<slot, histVars, resultVars>>

get_value ==
    /\ CallerIdle
    /\ Returns("get_value", PromiseGetValue(state))
    /\ UNCHANGED <<promiseVars, histVars, resultVars>>

\* mutant: the result is built from get_value, an error reads as absence
get_result_value_only ==
    /\ CallerIdle
    /\ Returns("get_result",
               IF state.tag = "Success" THEN SomeOk(state.val) ELSE None)
    /\ UNCHANGED <<promiseVars, histVars, resultVars>>

get_result ==
    /\ CallerIdle
    /\ Returns("get_result", PromiseGetResult(state))
    /\ UNCHANGED <<promiseVars, histVars, resultVars>>

\* mutant: the value is handed out but stays cached
take_value_keeps ==
    /\ CallerIdle
    /\ Returns("take_value", PromiseGetValue(state))
    /\ state' = state
    /\ valueTakes' = valueTakes + (IF PromiseGetValue(state) # None THEN 1 ELSE 0)
    /\ written' = None
    /\ UNCHANGED <<slot, produced, polled, prevPolled, resultTakes>>

\* mutant: taking the value resets the promise and starts the body again
take_value_reruns ==
    /\ CallerIdle
    /\ ret' = [op |-> "take_value", val |-> PromiseGetValue(state)]
    /\ state' = IF state.tag = "Success" THEN Updating ELSE state
    /\ slot' = IF state.tag = "Success" THEN Pending ELSE slot
    /\ ppc' = IF state.tag = "Success" THEN "run" ELSE ppc
    /\ valueTakes' = valueTakes + (IF PromiseGetValue(state) # None THEN 1 ELSE 0)
    /\ written' = None
    /\ UNCHANGED <<wrapperVars, pending, clock, sent, sendErrs, subVars>>
    /\ UNCHANGED <<produced, polled, prevPolled, resultTakes>>

take_value ==
    /\ CallerIdle
    /\ Returns("take_value", PromiseGetValue(state))
    /\ state' = PromiseAfterTakeValue(state)
    /\ valueTakes' = valueTakes + (IF PromiseGetValue(state) # None THEN 1 ELSE 0)
    /\ written' = None
    /\ UNCHANGED <<slot, produced, polled, prevPolled, resultTakes>>

\* mutant: the result is handed out but stays cached
take_result_keeps ==
    /\ CallerIdle
    /\ Returns("take_result", PromiseGetResult(state))
    /\ state' = state
    /\ resultTakes' = resultTakes + (IF PromiseGetResult(state) # None THEN 1 ELSE 0)
    /\ written' = None
    /\ UNCHANGED <<slot, produced, polled, prevPolled, valueTakes>>

take_result ==
    /\ CallerIdle
    /\ Returns("take_result", PromiseGetResult(state))
    /\ state' = PromiseAfterTakeResult(state)
    /\ resultTakes' = resultTakes + (IF PromiseGetResult(state) # None THEN 1 ELSE 0)
    /\ written' = None
    /\ UNCHANGED <<slot, produced, polled, prevPolled, valueTakes>>

\* the caller drops the wrapper: the receiver closes the channel and the
\* buffered statuses are discarded; the spawned body is not aborted
drop ==
    /\ CallerIdle
    /\ dropped' = TRUE
    /\ chan' = <<>>
    /\ UNCHANGED <<buffer, status, cpc, sentAtCall, doneAtCall, ret>>
    /\ UNCHANGED <<promiseVars, bodyVars, subVars, histVars, resultVars>>

Body == send \/ send_resume \/ complete
Caller ==
    \/ poll_state \/ status_history \/ last_status \/ finished
    \/ get_progress \/ get_value_mut \/ get_value \/ get_result
    \/ take_value \/ take_result \/ drop

Next == Body \/ Caller

Spec == Init /\ [][Next]_vars

\* The body has spawned a sub-task that reports through a clone of the
\* sender; the caller polls, reads the log and may drop the wrapper (the
\* cache accessors touch neither the log nor the channel).
NextMulti ==
    \/ Body \/ SubTask
    \/ poll_state \/ status_history \/ last_status \/ get_progress \/ drop
SpecMulti == InitMulti /\ [][NextMulti]_vars

\* The caller keeps calling poll_state (each call runs to its end) and the
\* executor keeps running the body while it is able to run.
SpecFair ==
    /\ Init /\ [][Next]_vars
    /\ WF_vars(poll_state_call) /\ WF_vars(poll_state_step)
    /\ WF_vars(Body)

\* The calling thread runs poll_state's synchronous code to its end; the
\* executor promises the body nothing.
SpecCallerRuns == Init /\ [][Next]_vars /\ WF_vars(poll_state_step)

(* ======================= properties ======================= *)

\* C1: with the single producer, the log is always a prefix of the statuses
\* sent, in send order (log followed by the channel's buffer is exactly what
\* was sent while the receiver lives: nothing lost, duplicated, reordered),
\* and every step leaves the old log as a prefix of the new one.
C1_LogIsOrderedPrefix ==
    /\ [](IsPrefix(status, sent) /\ (~dropped => status \o chan = sent))
    /\ [][IsPrefix(status, status')]_vars
C1_Witness ==
    /\ Len(status) = 2
    /\ Len(sent) = 3
    /\ status[1].message # status[2].message

\* The payload a poll_state is expected to return after `polled`: the one
\* returned then, or the one the caller has since written over it.
ExpectedAfter(s) ==
    IF s.tag = "Success" /\ written # None THEN Success(written.n) ELSE s

\* C2 as stated: once a poll_state has returned a terminal variant, every
\* later poll_state returns that variant and payload (the caller's own
\* writes through get_value_mut taken into account), whatever public
\* operations were called in between, takes included.
C2_TerminalWhateverCalled ==
    [][(promise_poll_state /\ IsTerminal(polled))
         => ret' = [op |-> "poll_state",
                    val |-> StateRef(ExpectedAfter(polled))]]_vars
\* C2 amended: once a poll_state has returned a terminal variant, every
\* later poll_state returns that variant and payload (or the payload since
\* written through get_value_mut) until take_value/take_result moves the
\* result out; after a take that returned something every poll_state
\* returns Empty; and no state ever goes back to Updating.
C2_TerminalUntilTaken ==
    /\ [][(promise_poll_state /\ IsTerminal(polled)
             /\ valueTakes + resultTakes = 0)
            => ret' = [op |-> "poll_state",
                       val |-> StateRef(ExpectedAfter(polled))]]_vars
    /\ [][(promise_poll_state /\ valueTakes + resultTakes > 0)
            => ret' = [op |-> "poll_state", val |-> StateRef(Empty)]]_vars
    /\ [][state.tag # "Updating" => state'.tag # "Updating"]_vars
C2_Witness ==
    /\ ret.op = "poll_state"
    /\ IsTerminal(prevPolled)
    /\ ret.val = StateRef(polled)
    /\ polled = ExpectedAfter(prevPolled)
    /\ written # None

\* C3: once finished() is true it is true in every later state, after any
\* public operation on the wrapper.
C3_FinishedForever ==
    [][Finished(state) => Finished(state')]_vars

\* C4: a poll_state call always ends, whatever the body does or does not
\* do (running, suspended in a send, finished, panicked): a step of the
\* call is enabled in each of its positions, the call returns, the try_recv
\* that finds nothing ends the drain loop, and the promise is then polled
\* once and its state returned.
C4_PollStateNeverWaits ==
    /\ [](cpc # "idle" => ENABLED poll_state_step)
    /\ (cpc # "idle") ~> (cpc = "idle")
    /\ [][(cpc = "drain" /\ chan = <<>> /\ cpc' # cpc) => cpc' = "poll"]_vars
    /\ [][(cpc = "poll" /\ cpc' # cpc)
            => /\ cpc' = "idle"
               /\ state' = PromisePollState(state, slot)
               /\ ret' = [op |-> "poll_state", val |-> StateRef(state')]]_vars
C4_Witness ==
    /\ cpc = "idle"
    /\ ret.op = "poll_state"
    /\ ppc = "blocked"
    /\ chan = <<>>
    /\ Len(status) = buffer

\* C5: the channel never holds more than `buffer` statuses (sent but not
\* logged <= buffer); a send on a full channel suspends the body and adds
\* nothing; while the body is suspended the caller can still start a
\* poll_state and take the next step of one; the channel shrinks only by poll_state's receive or the drop;
\* the suspended send ends only once there is room or the receiver is gone.
C5_Backpressure ==
    /\ [](Len(chan) <= buffer /\ Len(sent) - Len(status) <= buffer)
    /\ [][(send /\ ~dropped /\ Len(chan) = buffer)
            => (ppc' = "blocked" /\ sent' = sent /\ chan' = chan)]_vars
    /\ [](ppc = "blocked" /\ ~dropped
            => IF cpc = "idle" THEN ENABLED poll_state_call
               ELSE ENABLED poll_state_step)
    /\ [][Len(chan') < Len(chan) => (try_recv_ok \/ drop)]_vars
    /\ [][(ppc = "blocked" /\ ppc' # "blocked")
            => (dropped \/ Len(chan) < buffer)]_vars
C5_Witness ==
    /\ ppc = "blocked"
    /\ Len(chan) = buffer
    /\ cpc = "drain"
    /\ Len(status) > 0

\* C6: when a poll_state call returns, every status whose send completed
\* before the call began is in the log, in send order; if no send completed
\* during the call, the log is exactly the sequence sent.
C6_PollLogsAllSentBefore ==
    [][promise_poll_state
         => /\ Len(status') >= sentAtCall
            /\ SubSeq(status', 1, sentAtCall) = SubSeq(sent', 1, sentAtCall)
            /\ (Len(sent') = sentAtCall => status' = sent')]_vars
C6_Witness ==
    /\ cpc = "idle"
    /\ ret.op = "poll_state"
    /\ prevPolled = NotPolled
    /\ sentAtCall = 2
    /\ Len(sent) = 2
    /\ Len(status) = 2

\* C7: take_value returns a value at most once; the take_value made when a
\* poll_state has observed Success and nothing was taken returns the cached
\* value; once it has, get_value is absent in every later state and every
\* later take_value and get_value returns absence, polls in between or not.
C7_TakeValueOnce ==
    /\ [](valueTakes <= 1)
    /\ [](valueTakes = 1 => PromiseGetValue(state) = None)
    /\ [][(take_value /\ polled.tag = "Success"
             /\ valueTakes + resultTakes = 0)
            => ret' = [op |-> "take_value",
                       val |-> Some(ExpectedAfter(polled).val)]]_vars
    /\ [][(take_value /\ valueTakes = 1)
            => ret' = [op |-> "take_value", val |-> None]]_vars
    /\ [][(get_value /\ valueTakes = 1)
            => ret' = [op |-> "get_value", val |-> None]]_vars
C7_Witness ==
    /\ valueTakes = 1
    /\ ret = [op |-> "take_value", val |-> None]
    /\ polled = Empty

\* C8 as stated: each take succeeds at most once, and a take made after a
\* successful take, or while the state is not Success (non-terminal or
\* Failed), returns absence.
C8_TakeAbsentUnlessSuccess ==
    /\ [](valueTakes <= 1 /\ resultTakes <= 1)
    /\ [][((take_value \/ take_result)
             /\ (state.tag # "Success" \/ valueTakes + resultTakes > 0))
            => ret'.val = None]_vars
\* C8 amended: at most one take ever succeeds; take_value returns absence
\* whenever the state is not Success, take_result whenever the state is not
\* terminal (Updating or Empty), both after any successful take; on Failed
\* take_result returns the error, once, leaving Empty; a take is always
\* possible (no fault).
C8_TakeAtMostOnce ==
    /\ [](valueTakes + resultTakes <= 1)
    /\ [][(take_value
             /\ (state.tag # "Success" \/ valueTakes + resultTakes > 0))
            => ret' = [op |-> "take_value", val |-> None]]_vars
    /\ [][(take_result
             /\ (~IsTerminal(state) \/ valueTakes + resultTakes > 0))
            => ret' = [op |-> "take_result", val |-> None]]_vars
    /\ [][(take_result /\ state.tag = "Error")
            => (ret'.val = SomeErr(state.val) /\ state' = Empty)]_vars
    /\ [](CallerIdle => (ENABLED take_value /\ ENABLED take_result))
C8_Witness ==
    /\ resultTakes = 1
    /\ ret = [op |-> "take_result", val |-> None]
    /\ slot = Consumed

\* C9: from a write through get_value_mut until the next write or take,
\* the cached value is the value written: get_value returns it and
\* take_value returns it.
C9_WriteIsVisible ==
    /\ [](written # None => PromiseGetValue(state) = written)
    /\ [][(get_value /\ written # None)
            => ret' = [op |-> "get_value", val |-> written]]_vars
    /\ [][(take_value /\ written # None)
            => ret' = [op |-> "take_value", val |-> written]]_vars
C9_Witness ==
    /\ polled = Success(34)
    /\ written = Some(33)
    /\ ret = [op |-> "get_value", val |-> Some(33)]

OtherCall ==
    \/ status_history \/ last_status \/ get_progress \/ finished
    \/ get_value_mut \/ get_value \/ get_result \/ take_value \/ take_result

\* C11: status_history, last_status, get_progress, finished and the five
\* DirectCacheAccess operations leave the log, the channel and the result
\* cell as they are; the log changes only in poll_state's receive and the
\* result cell is consumed only in poll_state's poll of the promise.
C11_OnlyPollStateTouchesLog ==
    /\ [][OtherCall => UNCHANGED <<status, chan, slot>>]_vars
    /\ [][status' # status => try_recv_ok]_vars
    /\ [][(slot # Consumed /\ slot' = Consumed) => promise_poll_state]_vars
C11_Witness ==
    /\ ret.op = "get_progress"
    /\ status # <<>>
    /\ chan # <<>>
    /\ slot.tag = "Ok"

\* C12: while the body has neither had a status accepted nor completed,
\* the log is empty, status_history is empty, last_status absent,
\* get_progress zero and finished false, poll_state calls made or not.
C12_FreshWrapper ==
    /\ []((sent = <<>> /\ produced = Pending)
            => (status = <<>> /\ state = Updating))
    /\ [][(sent = <<>> /\ produced = Pending /\ status_history)
            => ret'.val = Slice(<<>>)]_vars
    /\ [][(sent = <<>> /\ produced = Pending /\ last_status)
            => ret'.val = None]_vars
    /\ [][(sent = <<>> /\ produced = Pending /\ get_progress)
            => ret'.val = ProgressVal(0)]_vars
    /\ [][(sent = <<>> /\ produced = Pending /\ finished)
            => ret'.val = Bool(FALSE)]_vars
C12_Witness ==
    /\ sent = <<>>
    /\ produced = Pending
    /\ polled = Updating
    /\ prevPolled = Updating
    /\ ret = [op |-> "get_progress", val |-> ProgressVal(0)]

\* C13: once the wrapper is dropped every send of the body returns Err
\* (nothing is accepted), a send suspended on the full channel is woken and
\* returns Err, and the drop itself leaves the body and its result alone:
\* the body can still run to completion.
C13_DropFailsSends ==
    /\ [][(dropped /\ (send \/ send_resume))
            => (sendErrs' = sendErrs + 1 /\ sent' = sent /\ chan' = chan)]_vars
    /\ (dropped /\ ppc = "blocked") ~> (ppc # "blocked")
    /\ [][drop => UNCHANGED <<ppc, pending, clock, slot, produced>>]_vars
    /\ [](dropped /\ ppc = "run" => ENABLED complete)
C13_Witness ==
    /\ dropped
    /\ sendErrs = 2
    /\ ppc = "done"
    /\ produced.tag = "Ok"

\* every public call can be made
AllCallsEnabled ==
    /\ ENABLED poll_state_call /\ ENABLED status_history
    /\ ENABLED last_status /\ ENABLED finished /\ ENABLED get_progress
    /\ ENABLED get_value_mut /\ ENABLED get_value /\ ENABLED get_result
    /\ ENABLED take_value /\ ENABLED take_result

AsState(r) == IF r.tag = "Ok" THEN Success(r.val) ELSE Error(r.val)

C17_BodyRunsOnce ==
    /\ [][(ppc \in {"done", "panicked"}) => UNCHANGED ppc]_vars
    /\ [][(produced # Pending) => UNCHANGED produced]_vars
    /\ [][Caller => UNCHANGED <<ppc, pending, clock, sent, produced>>]_vars
    /\ [](\A i, j \in 1..Len(sent) : i < j => sent[i].time < sent[j].time)
    /\ [][slot = Consumed => slot' = Consumed]_vars
    /\ [][(~IsTerminal(state) /\ IsTerminal(state'))
            => (state = Updating /\ promise_poll_state)]_vars
    /\ [][state # Updating => state' # Updating]_vars
    /\ [][state = Empty => state' = Empty]_vars
C17_Witness ==
    /\ valueTakes = 1
    /\ ret = [op |-> "poll_state", val |-> StateRef(Empty)]
    /\ ppc = "done"
    /\ Len(sent) = 3

\* C18: whenever a poll_state call returns a terminal variant, the log
\* holds every status the body sent before completing.
C18_TerminalImpliesLogComplete ==
    [][(promise_poll_state /\ IsTerminal(state')) => status' = sent']_vars

\* C19: with a caller that keeps polling and a body that keeps running,
\* unless the caller drops the wrapper first, a state is reached where the
\* body has completed, every status it sent is in the log and a poll_state
\* has returned a terminal variant, also when the body sends more statuses
\* than the channel holds.
C19_NoDeadlock ==
    <>(dropped \/ (ppc = "done" /\ status = sent /\ IsTerminal(polled)))
C19_Witness ==
    /\ ~dropped
    /\ buffer = 1
    /\ Len(status) = 3
    /\ IsTerminal(polled)

\* which task sent a status: the sub-task's messages are its own
From(st) == IF \E rep \in SubReports : rep[2] = st.message THEN 2 ELSE 1
SentBy(seq, p) == SelectSeq(seq, LAMBDA st : From(st) = p)
InSendOrder(seq) ==
    \A i, j \in 1..Len(seq) : i < j => seq[i].time < seq[j].time

\* C20: with the body and a sub-task sending through clones of the sender,
\* the log followed by the channel's buffer is the sequence of statuses in
\* the order the channel accepted them (each accepted status once), the
\* statuses of each task appear in the log in that task's own send order,
\* and a poll_state returns with everything accepted before it began.
C20_MultiProducer ==
    /\ [](IsPrefix(status, sent) /\ (~dropped => status \o chan = sent))
    /\ [](\A i, j \in 1..Len(status) : i # j => status[i] # status[j])
    /\ [](\A p \in {1, 2} : InSendOrder(SentBy(status, p)))
    /\ [][promise_poll_state => Len(status') >= sentAtCall]_vars
C20_Witness ==
    /\ Len(status) = 3
    /\ \E i, j \in 1..Len(status) : i < j /\ status[i].time > status[j].time
    /\ Len(SentBy(status, 2)) = 2

====
